---- MODULE Spec2Model ----
(***************************************************************************)
(* Walker's alias method, chainer/utils/walker_alias.py.                   *)
(*                                                                         *)
(* The model follows WalkerAlias.__init__ statement by statement (the      *)
(* normalisation, the sort of the (prob, index) pairs, the two-pointer     *)
(* sweep with its donation loop, the default fill, the final assertion)    *)
(* and then the methods of the built object: sample (with its two paths    *)
(* sample_xp and sample_gpu), to_device, to_cpu and to_gpu.                *)
(*                                                                         *)
(* Numbers.  The weights are small integers.  A float is modelled as an    *)
(* exact rational with the common denominator Den = |sum(probs)|, or as    *)
(* one of the IEEE special values the division by a zero sum produces      *)
(* (nan, +inf, -inf).  Rounding of float32 is not modelled: arithmetic is  *)
(* exact.  A uniform draw u is the rational n / UDen.                      *)
(***************************************************************************)
EXTENDS Integers, Sequences, FiniteSets

VARIABLES
    probs,      \* the argument of __init__: the weight vector (1-based sequence)
    pc,         \* position: "init", "for", "while", "assert", "done", "sampled", "raised"
    pairs,      \* the sorted list of (prob, index) pairs
    it,         \* how many pairs the for loop has taken
    i,          \* loop variable: the outcome index of the current pair
    p,          \* loop variable: the scaled mass of the current pair
    il,         \* next slot to initialise
    ir,         \* next slot to receive a donation
    threshold,  \* array of N floats, indexed from 0
    values,     \* array of 2N int32, indexed from 0
    device,     \* self._device
    ps,         \* the uniform draws of the sample call in progress
    vs,         \* the array that call returns
    exc,        \* the exception a call raised, "none" if none
    donated     \* history: the slots that received a donation, in order

vars == <<probs, pc, pairs, it, i, p, il, ir, threshold, values, device,
          ps, vs, exc, donated>>

----------------------------------------------------------------------------
(* Bounds of the model *)

MaxN == 3
MaxW == 2

\* The weights a vector is drawn from: one negative weight, zero, and 1..MaxW.
Weights == (-1) .. MaxW

WeightVectors == UNION {[1 .. n -> Weights] : n \in 0 .. MaxN}

\* The shapes sample is called with: one draw, or a batch of two.
Shapes == {1, 2}

Devices == {"cpu", "gpu"}

----------------------------------------------------------------------------
(* Helpers *)

RECURSIVE SumSeq(_)
SumSeq(s) == IF s = <<>> THEN 0 ELSE s[1] + SumSeq(Tail(s))

Abs(x) == IF x < 0 THEN -x ELSE x

Max(a, b) == IF a < b THEN b ELSE a

N == Len(probs)

\* The common denominator of every finite float of a run.
Den == Abs(SumSeq(probs))

\* The input is a distribution: non-empty, no negative weight, positive sum.
Valid == /\ N >= 1
         /\ \A j \in 1 .. N : probs[j] >= 0
         /\ SumSeq(probs) > 0

----------------------------------------------------------------------------
(* Floats: exact rationals num / Den, and the IEEE special values *)

Fin(n) == [kind |-> "fin", num |-> n]
NaN == [kind |-> "nan", num |-> 0]
PInf == [kind |-> "pinf", num |-> 0]
NInf == [kind |-> "ninf", num |-> 0]

\* The float 1.0.
One == Fin(Den)

\* w / s, as numpy divides: x/0 is nan for x = 0 and an infinity otherwise.
f_div(w, s) ==
    IF s > 0 THEN Fin(w)
    ELSE IF s < 0 THEN Fin(-w)
    ELSE IF w = 0 THEN NaN
    ELSE IF w > 0 THEN PInf ELSE NInf

\* x * n for an integer n >= 0.
f_mul(x, n) ==
    IF x.kind = "fin" THEN Fin(x.num * n)
    ELSE IF x.kind = "nan" \/ n = 0 THEN NaN
    ELSE x

f_neg(x) ==
    IF x.kind = "fin" THEN Fin(-x.num)
    ELSE IF x.kind = "pinf" THEN NInf
    ELSE IF x.kind = "ninf" THEN PInf
    ELSE NaN

f_add(x, y) ==
    IF x.kind = "nan" \/ y.kind = "nan" THEN NaN
    ELSE IF x.kind = "fin" /\ y.kind = "fin" THEN Fin(x.num + y.num)
    ELSE IF x.kind = "fin" THEN y
    ELSE IF y.kind = "fin" THEN x
    ELSE IF x.kind = y.kind THEN x
    ELSE NaN

f_sub(x, y) == f_add(x, f_neg(y))

\* x < y; every comparison with nan is false.
f_lt(x, y) ==
    IF x.kind = "nan" \/ y.kind = "nan" THEN FALSE
    ELSE IF x.kind = "fin" /\ y.kind = "fin" THEN x.num < y.num
    ELSE IF x.kind = "ninf" THEN y.kind # "ninf"
    ELSE IF x.kind = "pinf" THEN FALSE
    ELSE y.kind = "pinf"

f_gt(x, y) == f_lt(y, x)

\* x == y; nan equals nothing.
f_eq(x, y) == x.kind # "nan" /\ y.kind # "nan" /\ x = y

----------------------------------------------------------------------------
(* pairs.sort(): the list sort of CPython on tuples (prob, index) *)

\* Tuple comparison x < y: the first components decide unless they are equal.
tuple_lt(x, y) ==
    IF f_eq(x[1], y[1]) THEN x[2] < y[2] ELSE f_lt(x[1], y[1])

\* The end of the run that starts at a[1]: strictly descending when desc,
\* non-descending otherwise; e is the last position known to be in the run.
RECURSIVE run_end(_, _, _)
run_end(a, e, desc) ==
    IF e >= Len(a) THEN e
    ELSE IF tuple_lt(a[e + 1], a[e]) = desc THEN run_end(a, e + 1, desc)
    ELSE e

Reverse(a) == [j \in 1 .. Len(a) |-> a[Len(a) + 1 - j]]

\* The insertion point of pivot in the sorted prefix a[l+1 .. r] (0-based l, r).
RECURSIVE bisect(_, _, _, _)
bisect(a, pivot, l, r) ==
    IF l >= r THEN l
    ELSE LET m == l + ((r - l) \div 2)
         IN  IF tuple_lt(pivot, a[m + 1]) THEN bisect(a, pivot, l, m)
             ELSE bisect(a, pivot, m + 1, r)

\* Binary insertion of a[start+1 ..] into the sorted prefix a[1 .. start].
RECURSIVE binarysort(_, _)
binarysort(a, start) ==
    IF start >= Len(a) THEN a
    ELSE LET pivot == a[start + 1]
             l == bisect(a, pivot, 0, start)
             b == SubSeq(a, 1, l) \o <<pivot>> \o SubSeq(a, l + 1, start)
                      \o SubSeq(a, start + 2, Len(a))
         IN  binarysort(b, start + 1)

\* The list left as zip built it: the sort forgotten.
list_unsorted(a) == a

\* A list shorter than 64 is one run: the initial run is found (and reversed
\* when descending), the rest is inserted into it.
list_sort(a) ==
    IF Len(a) < 2 THEN a
    ELSE LET desc == tuple_lt(a[2], a[1])
             e == run_end(a, 2, desc)
             run == IF desc
                    THEN Reverse(SubSeq(a, 1, e)) \o SubSeq(a, e + 1, Len(a))
                    ELSE a
         IN  binarysort(run, e)

----------------------------------------------------------------------------
(* WalkerAlias.__init__ *)

\* numpy.ndarray(...) allocates without initialising: the content is whatever
\* the memory held.
GarbageThreshold == {NaN, Fin(-1)}
GarbageValues == {-1, 0, 2147483647}

\* prob = numpy.array(probs); prob /= numpy.sum(prob)
normalize(w) == [j \in 1 .. Len(w) |-> f_div(w[j], SumSeq(w))]

\* list(zip(prob, range(len(probs))))
zip_range(pr) == [j \in 1 .. Len(pr) |-> <<pr[j], j - 1>>]

Init ==
    /\ probs \in WeightVectors
    /\ pc = "init"
    /\ pairs = <<>>
    /\ it = 0
    /\ i = 0
    /\ p = Fin(0)
    /\ il = 0
    /\ ir = 0
    /\ threshold = <<>>
    /\ values = <<>>
    /\ device = "none"
    /\ ps = <<>>
    /\ vs = <<>>
    /\ exc = "none"
    /\ donated = <<>>

\* __init__ with the validation the code does not have: an invalid weight
\* vector is refused before anything is built.
Setup_validating ==
    /\ pc = "init"
    /\ IF N >= 1 /\ (\A j \in 1 .. N : probs[j] >= 0) /\ SumSeq(probs) > 0
       THEN /\ \E gt \in GarbageThreshold, gv \in GarbageValues :
                 /\ threshold' = [s \in 0 .. N - 1 |-> gt]
                 /\ values' = [s \in 0 .. 2 * N - 1 |-> gv]
            /\ pairs' = list_sort(zip_range(normalize(probs)))
            /\ pc' = "for"
            /\ exc' = exc
       ELSE /\ pc' = "raised"
            /\ exc' = "InvalidDistribution"
            /\ UNCHANGED <<threshold, values, pairs>>
    /\ il' = 0
    /\ ir' = 0
    /\ UNCHANGED <<probs, it, i, p, device, ps, vs, donated>>

\* Lines 25-31: normalise, allocate the two arrays, sort the pairs.
Setup ==
    /\ pc = "init"
    /\ \E gt \in GarbageThreshold, gv \in GarbageValues :
          /\ threshold' = [s \in 0 .. N - 1 |-> gt]
          /\ values' = [s \in 0 .. 2 * N - 1 |-> gv]
    /\ il' = 0
    /\ ir' = 0
    /\ pairs' = list_sort(zip_range(normalize(probs)))
    /\ pc' = "for"
    /\ UNCHANGED <<probs, it, i, p, device, ps, vs, exc, donated>>

\* Lines 32-33: the for loop takes the next pair and scales its probability.
ForNext ==
    /\ pc = "for"
    /\ it < Len(pairs)
    /\ it' = it + 1
    /\ i' = pairs[it + 1][2]
    /\ p' = f_mul(pairs[it + 1][1], N)
    /\ pc' = "while"
    /\ UNCHANGED <<probs, pairs, il, ir, threshold, values, device, ps, vs,
                   exc, donated>>

\* The loop condition without its guard on the pointers.
LoopCond_unguarded == f_gt(p, One)

\* Line 34: the condition of the donation loop.
LoopCond == f_gt(p, One) /\ ir < il

\* The loop body subtracting the threshold itself instead of the deficit.
Donate_threshold ==
    /\ pc = "while"
    /\ f_gt(p, One) /\ ir < il
    /\ values' = [values EXCEPT ![ir * 2 + 1] = i]
    /\ p' = f_sub(p, threshold[ir])
    /\ ir' = ir + 1
    /\ donated' = Append(donated, ir)
    /\ UNCHANGED <<probs, pc, pairs, it, i, il, threshold, device, ps, vs, exc>>

\* Lines 35-37: the body of the donation loop.
Donate ==
    /\ pc = "while"
    /\ LoopCond
    /\ values' = [values EXCEPT ![ir * 2 + 1] = i]
    /\ p' = f_sub(p, f_sub(One, threshold[ir]))
    /\ ir' = ir + 1
    /\ donated' = Append(donated, ir)
    /\ UNCHANGED <<probs, pc, pairs, it, i, il, threshold, device, ps, vs, exc>>

\* Lines 38-40: the loop has exited; the slot il is initialised.
Store ==
    /\ pc = "while"
    /\ ~LoopCond
    /\ threshold' = [threshold EXCEPT ![il] = p]
    /\ values' = [values EXCEPT ![il * 2] = i]
    /\ il' = il + 1
    /\ pc' = "for"
    /\ UNCHANGED <<probs, pairs, it, i, p, ir, device, ps, vs, exc, donated>>

\* The fill starting one slot too late.
fill_rest_late(v, from) ==
    [s \in DOMAIN v |-> IF s % 2 = 1 /\ (s - 1) \div 2 > from THEN 0 ELSE v[s]]

\* Lines 42-43: the high entry of every slot from ir on is set to 0.
fill_rest(v, from) ==
    [s \in DOMAIN v |-> IF s % 2 = 1 /\ (s - 1) \div 2 >= from THEN 0 ELSE v[s]]

Fill ==
    /\ pc = "for"
    /\ it = Len(pairs)
    /\ values' = fill_rest(values, ir)
    /\ pc' = "assert"
    /\ UNCHANGED <<probs, pairs, it, i, p, il, ir, threshold, device, ps, vs,
                   exc, donated>>

\* Lines 45-48: the assertion, then the table is published on the CPU device.
Finish ==
    /\ pc = "assert"
    /\ IF \A s \in DOMAIN values : values[s] < N
       THEN /\ pc' = "done"
            /\ device' = "cpu"
            /\ exc' = exc
       ELSE /\ pc' = "raised"
            /\ exc' = "AssertionError"
            /\ device' = device
    /\ UNCHANGED <<probs, pairs, it, i, p, il, ir, threshold, values, ps, vs,
                   donated>>

BuildNext == Setup \/ ForNext \/ Donate \/ Store \/ Fill \/ Finish

\* __init__ alone, run to its end.
BuildSpec == Init /\ [][BuildNext]_vars /\ WF_vars(BuildNext)

----------------------------------------------------------------------------
(* The uniform draws *)

\* A draw u is n / UDen for n in 0 .. UDen.  The generator returns a double in
\* [0, 1); the cast to float32 (astype, or the float32 generator of the GPU)
\* can round it up to exactly 1.0, which is n = UDen.
UDen == 2 * Max(N, 1) * Max(Den, 1)

\* pb = ps * len(self.threshold), as a numerator over UDen.
scaled(n) == n * N

\* floor(pb): astype(int32) and __float2int_rd agree on pb >= 0.
floor_index(n) == scaled(n) \div UDen

\* The comparison the other way round.
f_gt_ratio(x, fn) ==
    IF x.kind = "fin" THEN x.num * UDen > fn * Den
    ELSE x.kind = "pinf"

\* x < fn / UDen, the comparison of a threshold with pb - index.
f_lt_ratio(x, fn) ==
    IF x.kind = "fin" THEN x.num * UDen < fn * Den
    ELSE x.kind = "ninf"

\* The draws the model takes, for the table in self.  sample only looks at
\* the slot of a draw and at how its fractional part compares with the
\* threshold of the slot, so every slot gets the draw with fractional part 0,
\* the first draw of the grid above it, the draw whose fractional part is the
\* threshold, and the last draw of the slot: one draw at, one below and one
\* above every threshold in [0, 1].  And the draw 1.0.
Draws ==
    {n \in 0 .. UDen :
        LET idx == floor_index(n)
            fn == scaled(n) - idx * UDen
        IN  \/ n = UDen
            \/ fn = 0
            \/ fn = N
            \/ fn = UDen - N
            \/ /\ idx \in DOMAIN threshold
               /\ threshold[idx].kind = "fin"
               /\ threshold[idx].num * UDen = fn * Den}

----------------------------------------------------------------------------
(* WalkerAlias.sample *)

\* The branch of the first draw applied to the whole batch.
sample_xp_first(draws) ==
    LET index == [j \in DOMAIN draws |-> floor_index(draws[j])]
        first == IF f_lt_ratio(threshold[index[1]], scaled(draws[1]) - index[1] * UDen)
                 THEN 1 ELSE 0
    IN  IF \E j \in DOMAIN draws : index[j] \notin DOMAIN threshold
        THEN [exc |-> "IndexError", vs |-> <<>>]
        ELSE [exc |-> "none",
              vs |-> [j \in DOMAIN draws |-> values[index[j] * 2 + first]]]

\* Lines 105-114.  chainer.utils._getitem raises IndexError when an index is
\* out of range, and then the whole call fails.
sample_xp(draws) ==
    LET index == [j \in DOMAIN draws |-> floor_index(draws[j])]
        left_right == [j \in DOMAIN draws |->
            IF f_lt_ratio(threshold[index[j]], scaled(draws[j]) - index[j] * UDen)
            THEN 1 ELSE 0]
    IN  IF \E j \in DOMAIN draws : index[j] \notin DOMAIN threshold
        THEN [exc |-> "IndexError", vs |-> <<>>]
        ELSE [exc |-> "none",
              vs |-> [j \in DOMAIN draws |-> values[index[j] * 2 + left_right[j]]]]

\* Lines 122-129, the kernel on one element: the outcomes it can produce.
\* threshold and values are raw pointers: a read outside the arrays (only an
\* empty table has one) yields whatever the memory holds.
walker_alias_sample(n) ==
    LET rd == floor_index(n)
        index == IF rd >= N THEN 0 ELSE rd
        lr == IF f_lt_ratio(threshold[index], scaled(n) - index * UDen)
              THEN 1 ELSE 0
    IN  IF index \notin DOMAIN threshold THEN GarbageValues
        ELSE {values[index * 2 + lr]}

\* Lines 116-133: the results the call can return.
sample_gpu(draws) ==
    LET outcomes == [j \in DOMAIN draws |-> walker_alias_sample(draws[j])]
    IN  {[exc |-> "none", vs |-> out] :
            out \in {g \in [DOMAIN draws -> UNION {outcomes[j] : j \in DOMAIN draws}] :
                        \A j \in DOMAIN draws : g[j] \in outcomes[j]}}

\* Lines 86-103: the dispatch on the device of the sampler.
sample ==
    /\ pc = "done"
    /\ \E shape \in Shapes :
         \E draws \in [1 .. shape -> Draws] :
           \E r \in (IF device = "gpu" THEN sample_gpu(draws)
                     ELSE {sample_xp(draws)}) :
              /\ ps' = draws
              /\ vs' = r.vs
              /\ exc' = r.exc
    /\ pc' = "sampled"
    /\ UNCHANGED <<probs, pairs, it, i, p, il, ir, threshold, values, device,
                   donated>>

\* The caller has taken the result (or the exception) of the call.
sample_return ==
    /\ pc = "sampled"
    /\ pc' = "done"
    /\ ps' = <<>>
    /\ vs' = <<>>
    /\ exc' = "none"
    /\ UNCHANGED <<probs, pairs, it, i, p, il, ir, threshold, values, device,
                   donated>>

----------------------------------------------------------------------------
(* WalkerAlias.to_device, to_gpu, to_cpu *)

\* device.send(array): the array relocated to the device, content unchanged.
send(a, d) == a

\* The values array sent in the place of the thresholds.
to_device_swapped(d) ==
    /\ pc = "done"
    /\ threshold' = send(values, d)
    /\ values' = send(values, d)
    /\ device' = d
    /\ UNCHANGED <<probs, pc, pairs, it, i, p, il, ir, ps, vs, exc, donated>>

to_device(d) ==
    /\ pc = "done"
    /\ threshold' = send(threshold, d)
    /\ values' = send(values, d)
    /\ device' = d
    /\ UNCHANGED <<probs, pc, pairs, it, i, p, il, ir, ps, vs, exc, donated>>

to_gpu == to_device("gpu")

to_cpu == to_device("cpu")

----------------------------------------------------------------------------

Next ==
    \/ BuildNext
    \/ sample
    \/ sample_return
    \/ \E d \in Devices : to_device(d)
    \/ to_gpu
    \/ to_cpu

Spec == Init /\ [][Next]_vars

----------------------------------------------------------------------------
(* Properties *)

\* __init__ has finished and the object exists.
Built == pc \in {"done", "sampled"}

\* The slot a draw falls in, and the numerator (over UDen) of its fractional
\* part within the slot.
SlotOf(n) == (n * N) \div UDen
FracOf(n) == (n * N) % UDen

\* C1: for a valid weight vector, when __init__ has finished every one of the
\* 2N entries of values holds a valid outcome index in [0, N), whatever the
\* uninitialised array held.
C1_ValuesInRange ==
    (Built /\ Valid) =>
        /\ DOMAIN values = 0 .. 2 * N - 1
        /\ \A s \in 0 .. 2 * N - 1 : values[s] \in 0 .. N - 1

\* A table with donated high entries and with default-filled ones.
C1_Witness ==
    /\ pc = "done"
    /\ Valid
    /\ 0 < ir
    /\ ir < N

\* The mass (numerator over Den) the table gives outcome j: the thresholds of
\* the slots whose low entry is j and the deficits of those whose high
\* entry is j.
RECURSIVE TableMass(_, _)
TableMass(j, n) ==
    IF n = 0 THEN 0
    ELSE TableMass(j, n - 1)
         + (IF values[2 * (n - 1)] = j THEN threshold[n - 1].num ELSE 0)
         + (IF values[2 * (n - 1) + 1] = j THEN Den - threshold[n - 1].num ELSE 0)

\* C2: for a valid weight vector the table encodes the normalised input: the
\* mass of every outcome j over the N slots is N * w[j] / sum(w); and a draw
\* below 1.0 returns the low entry of its slot when its fractional part is at
\* most the threshold and the high entry otherwise, so that the draws that
\* return j have measure w[j] / sum(w).
C2_TableEncodesDistribution ==
    (Built /\ Valid) =>
        /\ \A s \in 0 .. N - 1 : threshold[s].kind = "fin"
        /\ \A j \in 0 .. N - 1 : TableMass(j, N) = N * probs[j + 1]
        /\ (pc = "sampled" /\ exc = "none") =>
              \A j \in DOMAIN ps :
                  ps[j] < UDen =>
                      vs[j] = IF FracOf(ps[j]) * Den
                                   <= threshold[SlotOf(ps[j])].num * UDen
                              THEN values[2 * SlotOf(ps[j])]
                              ELSE values[2 * SlotOf(ps[j]) + 1]

\* A table in which some outcome gave mass to two slots.
C2_Witness ==
    /\ pc = "done"
    /\ Valid
    /\ Len(donated) >= 2
    /\ \E s \in 0 .. N - 1 : 0 < threshold[s].num /\ threshold[s].num < Den

C4_SampleInRange ==
    (pc = "sampled" /\ Valid) =>
        /\ exc = "none"
        /\ \A j \in DOMAIN vs : vs[j] \in 0 .. N - 1

\* C5: once built the table is never changed: no step of sample, to_device,
\* to_cpu or to_gpu changes an entry of threshold or of values.
C5_TableImmutable ==
    [][Built => (threshold' = threshold /\ values' = values)]_vars

\* A sample drawn on the GPU: the sampler was moved and then sampled.
C5_Witness ==
    /\ pc = "sampled"
    /\ device = "gpu"
    /\ Valid
    /\ N >= 2
    /\ exc = "none"

Perms(S) == {f \in [S -> S] : \A a, b \in S : f[a] = f[b] => a = b}

\* The results sample can return for the draws, on the device of the sampler.
Results(draws) ==
    IF device = "gpu" THEN sample_gpu(draws) ELSE {sample_xp(draws)}

\* C6: the result of a batch permuted is the permuted result of the batch.
C6_OrderIndependent ==
    pc = "sampled" =>
        \A f \in Perms(DOMAIN ps) :
            [exc |-> exc,
             vs |-> IF exc = "none" THEN [j \in DOMAIN ps |-> vs[f[j]]] ELSE <<>>]
                \in Results([j \in DOMAIN ps |-> ps[f[j]]])

\* A batch of two draws with different outcomes, taking different branches.
C6_Witness ==
    /\ pc = "sampled"
    /\ device = "cpu"
    /\ exc = "none"
    /\ Len(ps) = 2
    /\ vs[1] # vs[2]
    /\ vs[1] = values[2 * SlotOf(ps[1])]
    /\ vs[2] = values[2 * SlotOf(ps[2]) + 1]

\* C7: for a valid weight vector every threshold written lies in [0, 1], and
\* the donation loop never stops at ir = il with p > 1: it exits with
\* 0 <= p <= 1.
C7_ThresholdInUnitInterval ==
    Valid =>
        /\ pc \in {"for", "while", "assert", "done", "sampled"} =>
              \A s \in 0 .. il - 1 :
                  /\ threshold[s].kind = "fin"
                  /\ 0 <= threshold[s].num
                  /\ threshold[s].num <= Den
        /\ (pc = "while" /\ ~LoopCond) =>
              /\ p.kind = "fin"
              /\ 0 <= p.num
              /\ p.num <= Den

\* The loop stops at ir = il after a donation, with p exactly 1.
C7_Witness ==
    /\ pc = "while"
    /\ Valid
    /\ ir = il
    /\ il > 0
    /\ Len(donated) > 0
    /\ p = One

NoDuplicate(q) == \A a, b \in DOMAIN q : q[a] = q[b] => a = b

\* An upper bound on the steps __init__ still has to take: two for every
\* pair not yet taken, one for the pending store, one for every donation still
\* possible, and the fill and the assertion.
Measure ==
    IF pc \in {"done", "sampled", "raised"} THEN 0
    ELSE IF pc = "assert" THEN 1
    ELSE 2 * (N - it) + (N - ir) + 2
         + (IF pc = "while" THEN 1 ELSE 0)
         + (IF pc = "init" THEN 1 ELSE 0)

\* C9: the sweep terminates for every weight vector: 0 <= ir <= il <= N at
\* every step, the pointers never decrease, a donation goes to the slot ir and
\* only when that slot is initialised (ir < il), no slot receives two
\* donations, the loop body runs at most N times; and __init__ finishes: once
\* set up (Setup needs nothing but pc = "init") and until it has finished, a
\* step is always possible, and every step lowers Measure, which is never
\* negative.
C9_SweepTerminates ==
    /\ [](/\ 0 <= ir
          /\ ir <= il
          /\ il <= N
          /\ Len(donated) <= N
          /\ NoDuplicate(donated)
          /\ \A a \in DOMAIN donated : donated[a] < il
          /\ Measure >= 0
          /\ pc \notin {"init", "done"} =>
                ENABLED (ForNext \/ Donate \/ Store \/ Fill \/ Finish))
    /\ [][/\ ir' >= ir
          /\ il' >= il
          /\ donated' # donated => (donated' = Append(donated, ir) /\ ir < il)
          /\ Measure' < Measure]_vars

\* A build in which every slot but the last received a donation.
C9_Witness ==
    /\ pc = "done"
    /\ N >= 3
    /\ Len(donated) = N - 1

\* C10: with a valid weight vector, no draw below 1.0 returns an outcome whose
\* weight is 0.
C10_NoZeroWeightOutcome ==
    (pc = "sampled" /\ Valid /\ exc = "none") =>
        \A j \in DOMAIN ps :
            ps[j] < UDen => (vs[j] \in 0 .. N - 1 /\ probs[vs[j] + 1] > 0)

====
